---- MODULE Spec2Model ----
(***************************************************************************)
(* Model of ntsb_crawler.py: a sequential script that fetches an NTSB      *)
(* docket listing, extracts one record per table row, resolves each        *)
(* record's download URL, downloads the files with a bounded retry loop    *)
(* and writes a CSV.  One action per statement block / loop iteration;     *)
(* an uncaught Python exception ends the run (pc = "crashed").             *)
(*                                                                         *)
(* The source file as committed has two lines that do not parse (the       *)
(* unterminated "if (" at lines 119-121 and the pasted traceback text at   *)
(* line 145).  The model follows the evident program: the condition of     *)
(* line 120 closed, line 145 ignored.                                      *)
(*                                                                         *)
(* Text is modelled as sequences of one-character strings so that          *)
(* concatenation, split(".") and the regular expression are computed.      *)
(***************************************************************************)
EXTENDS Integers, Sequences, FiniteSets, TLC

\* ------------------------------------------------------------------ bounds
MaxRows == 2
MaxDocNo == 2
MaxRuns == 2
PayloadChunks == 2

DocNos == 1..MaxDocNo

\* ------------------------------------------------------- program constants
DocketId == "58493"
detailurlprefix == <<"h","t","t","p","s",":","/","/","d","m","s",".","n","t","s","b",".","g","o","v","/">>
masterurlprefix == detailurlprefix \o <<"p","u","b","d","m","s","/","s","e","a","r","c","h","/">>
ViewUrl == detailurlprefix \o <<"V","i","e","w">>
HttpDownloadUrl == <<"h","t","t","p",":","/","/","d","m","s",".","n","t","s","b",".","g","o","v","/","D","o","w","n","l","o","a","d">>

\* ------------------------------------------------------------ text helpers
Unset == <<"UNSET">>
Missing == <<"MISSING">>
None == <<"NONE">>

Range(s) == {s[i] : i \in 1..Len(s)}

Positions(s, c) == {i \in 1..Len(s) : s[i] = c}

SetMax(S) == CHOOSE x \in S : \A y \in S : y <= x

\* detailurl.split(".")[-1]
LastDotPart(s) ==
  IF Positions(s, ".") = {} THEN s
  ELSE SubSeq(s, SetMax(Positions(s, ".")) + 1, Len(s))

\* re.sub("(.*')(.*)('.*)", r"\2", s): the text between the last two quotes,
\* or s itself when the pattern does not match
OnclickSub(s) ==
  LET q == Positions(s, "'") IN
  IF Cardinality(q) < 2 THEN s
  ELSE LET j == SetMax(q)
           i == SetMax(q \ {j})
       IN SubSeq(s, i + 1, j - 1)

UpperCase == <<"A","B","C","D","E","F","G","H","I","J","K","L","M","N","O","P","Q","R","S","T","U","V","W","X","Y","Z">>
LowerCase == <<"a","b","c","d","e","f","g","h","i","j","k","l","m","n","o","p","q","r","s","t","u","v","w","x","y","z">>
Digits == {"0","1","2","3","4","5","6","7","8","9"}

Lower(c) ==
  IF Positions(UpperCase, c) = {} THEN c
  ELSE LowerCase[CHOOSE i \in Positions(UpperCase, c) : TRUE]

RECURSIVE SlugFrom(_, _, _)
\* pending: a run of non-alphanumerics has been seen since the last kept character
SlugFrom(s, acc, pending) ==
  IF s = <<>> THEN acc
  ELSE LET c == Lower(Head(s)) IN
       IF c \in Range(LowerCase) \cup Digits
       THEN SlugFrom(Tail(s),
                     (IF pending /\ acc # <<>> THEN Append(acc, "-") ELSE acc) \o <<c>>,
                     FALSE)
       ELSE SlugFrom(Tail(s), acc, TRUE)

\* slugify(text): lowercase, each run of non-alphanumerics becomes one "-",
\* none at either end
slugify(s) == SlugFrom(s, <<>>, FALSE)

\* int(text) of a cell: defined on non-empty digit strings only
IsInt(s) == s # <<>> /\ Range(s) \subseteq Digits

DigitVal(c) == CHOOSE n \in 0..9 : <<"0","1","2","3","4","5","6","7","8","9">>[n + 1] = c

RECURSIVE IntOf(_)
IntOf(s) == IF s = <<>> THEN 0 ELSE 10 * IntOf(SubSeq(s, 1, Len(s) - 1)) + DigitVal(s[Len(s)])

\* str.replace("--", "") on a cell, left to right, non-overlapping
RECURSIVE ReplaceDashes(_)
ReplaceDashes(s) ==
  IF Len(s) < 2 THEN s
  ELSE IF s[1] = "-" /\ s[2] = "-" THEN ReplaceDashes(SubSeq(s, 3, Len(s)))
  ELSE <<s[1]>> \o ReplaceDashes(Tail(s))

\* lines 80-87: int(cell.replace("--", "").strip()), 0 when the cell is absent
\* or not a number
CountCell(cell) ==
  IF cell = Missing THEN 0
  ELSE IF IsInt(ReplaceDashes(cell)) THEN IntOf(ReplaceDashes(cell)) ELSE 0

\* datetime.strptime(text, "%b %d, %Y") on a tokenised date <<month, day, year>>
MonthNames == <<"Jan","Feb","Mar","Apr","May","Jun","Jul","Aug","Sep","Oct","Nov","Dec">>

IsLeap(y) == (y % 4 = 0 /\ y % 100 # 0) \/ y % 400 = 0

DaysIn(m, y) ==
  IF m = 2 THEN (IF IsLeap(y) THEN 29 ELSE 28)
  ELSE IF m \in {4, 6, 9, 11} THEN 30 ELSE 31

MonthNo(name) == CHOOSE m \in 1..12 : MonthNames[m] = name

DateParses(d) ==
  /\ d[1] \in Range(MonthNames)
  /\ d[3] \in 1..9999
  /\ d[2] \in 1..DaysIn(MonthNo(d[1]), d[3])

\* strftime("%Y-%m-%d") of the parsed date, as <<year, month, day>>
IsoDate(d) == <<d[3], MonthNo(d[1]), d[2]>>

\* ------------------------------------------------------------------ inputs
Str_Pdf == <<"f",".","p","d","f">>
Str_View == <<"V","i","e","w">>
Str_Onclick == <<"o","(","'","f",".","p","d","f","'",")">>
Str_Href == <<"d","o","c",".","c","f","m">>
Title_Engine == <<"E","n","g","i","n","e"," ","R","e","p","o","r","t">>
Title_Photo == <<"P","h","o","t","o"," ","A">>

\* what requests.get(docketurl) can give: an exception, or a response whose
\* body has a <title> and some table rows.  The code never reads the status.
\* An error page is taken to carry no docket rows.
ListingResponses ==
  {[kind |-> "transport", status |-> 0, title |-> <<>>, nrows |-> 0]}
  \cup [kind : {"response"}, status : {200},
        title : {<<"Docket", "Management", "DCA20MA059">>, <<"Error">>},
        nrows : 0..MaxRows]
  \cup [kind : {"response"}, status : {404},
        title : {<<"404", "Not", "Found">>, <<"Error">>},
        nrows : {0}]

\* a table row: its number of <td> cells and what they hold
Rows ==
  [ncols : {2, 4},
   docno : DocNos,
   date : {<<"Mar", 3, 2020>>, <<"Feb", 30, 2020>>},
   title : {Title_Engine, Title_Photo},
   href : {None, Str_Href},
   pages : {<<"7">>}]

\* the record's detail page: the value and onclick attributes of its second
\* <input> and the value of its second-to-last <option>
DetailPages ==
  {[kind |-> "transport", inputvalue |-> Missing, onclick |-> None, optionvalue |-> Missing]}
  \cup [kind : {"response"},
        inputvalue : {Missing, None, <<>>, Str_View, Str_Pdf},
        onclick : {None, Str_Onclick},
        optionvalue : {Missing, Str_Pdf}]

\* one download attempt: requests.get raises ("transport"), the stream breaks
\* after k chunks were written ("broken"), or the whole payload arrives ("ok")
Outcomes ==
  {[kind |-> "transport", k |-> 0], [kind |-> "ok", k |-> PayloadChunks]}
  \cup [kind : {"broken"}, k : 0..(PayloadChunks - 1)]

\* ------------------------------------------------------------------- state
VARIABLES
  pc,              \* where the script is
  run,             \* which invocation of the script this is
  crash,           \* the uncaught exception that ended the run, or "none"
  disk,            \* local path -> content (the chunks written) of the files that exist
  csvfile,         \* <docketid>.csv: whether it exists, and its data rows
  accidentnumber,
  nrows,           \* len(allrows("tr"))
  rowidx,          \* rows consumed by the extraction loop
  masterdict,      \* docno -> record fields
  keys,            \* the dict's iteration order
  docno,           \* the module-level variable left by the extraction loop
  record,          \* the module-level loop variable (0: never bound)
  idx,             \* position of the resolution / download loop in keys
  attempts,
  success,
  \* history variables (not program state):
  listing,         \* how this run's listing fetch ended
  disk0,           \* the disk when this run started
  fileGets,        \* docno -> file GETs issued this run
  resolveGets,     \* docno -> detail-page GETs issued this run
  statusLog,       \* docno -> the values written to ["download"] this run, in order
  pathWrites,      \* docno -> writes of ["localfilename"] this run
  csvOpened        \* this run opened the CSV for writing

vars == <<pc, run, crash, disk, csvfile, accidentnumber, nrows, rowidx, masterdict,
          keys, docno, record, idx, attempts, success, listing, disk0, fileGets,
          resolveGets, statusLog, pathWrites, csvOpened>>

EmptyEntry ==
  [doctitle |-> Unset, docmasterurl |-> Unset, docdate |-> <<0, 0, 0>>,
   docpages |-> -1, docphotos |-> -1, detailurl |-> Unset,
   localfilename |-> Unset, download |-> "unset"]

EmptyDict == [k \in {} |-> EmptyEntry]
EmptyDisk == [p \in {} |-> <<>>]
ZeroCount == [d \in DocNos |-> 0]
EmptyLog == [d \in DocNos |-> <<>>]

\* the state of a freshly started interpreter, the files on disk kept
FreshRun(d) ==
  /\ pc' = "start"
  /\ crash' = "none"
  /\ accidentnumber' = ""
  /\ nrows' = 0
  /\ rowidx' = 0
  /\ masterdict' = EmptyDict
  /\ keys' = <<>>
  /\ docno' = 0
  /\ record' = 0
  /\ idx' = 0
  /\ attempts' = 0
  /\ success' = FALSE
  /\ listing' = "none"
  /\ disk0' = d
  /\ fileGets' = ZeroCount
  /\ resolveGets' = ZeroCount
  /\ statusLog' = EmptyLog
  /\ pathWrites' = ZeroCount
  /\ csvOpened' = FALSE

Init ==
  /\ pc = "start"
  /\ run = 1
  /\ crash = "none"
  /\ disk = EmptyDisk
  /\ csvfile = [exists |-> FALSE, rows |-> <<>>]
  /\ accidentnumber = ""
  /\ nrows = 0
  /\ rowidx = 0
  /\ masterdict = EmptyDict
  /\ keys = <<>>
  /\ docno = 0
  /\ record = 0
  /\ idx = 0
  /\ attempts = 0
  /\ success = FALSE
  /\ listing = "none"
  /\ disk0 = EmptyDisk
  /\ fileGets = ZeroCount
  /\ resolveGets = ZeroCount
  /\ statusLog = EmptyLog
  /\ pathWrites = ZeroCount
  /\ csvOpened = FALSE

\* an uncaught exception: the interpreter prints a traceback and exits
Raise(what) ==
  /\ pc' = "crashed"
  /\ crash' = what

\* dict assignment masterdict[k] = v: a new key goes last, an old key keeps its place
DictSet(md, k, v) == (k :> v) @@ md

KeysSet(ks, k) == IF k \in Range(ks) THEN ks ELSE Append(ks, k)

Continue(next) ==
  /\ pc' = next
  /\ crash' = crash

\* ------------------------------------------------------- lines 49-64: fetch
\* requests.get(docketurl) is not in a try and its status is never tested;
\* accidentnumber is the third word of the page title
FetchListing ==
  /\ pc = "start"
  /\ \E resp \in ListingResponses :
       /\ listing' = (IF resp.kind = "transport" THEN "transport"
                      ELSE IF resp.status = 200 THEN "ok" ELSE "http_error")
       /\ IF resp.kind = "transport"
          THEN /\ Raise("ConnectionError: listing GET")
               /\ UNCHANGED <<accidentnumber, nrows>>
          ELSE IF Len(resp.title) < 3
          THEN /\ Raise("IndexError: page title")
               /\ UNCHANGED <<accidentnumber, nrows>>
          ELSE /\ accidentnumber' = resp.title[3]
               /\ nrows' = resp.nrows
               /\ Continue(IF resp.nrows > 0 THEN "extract" ELSE "sort")
  /\ UNCHANGED <<run, disk, csvfile, rowidx, masterdict, keys, docno, record, idx,
                 attempts, success, disk0, fileGets, resolveGets, statusLog,
                 pathWrites, csvOpened>>

\* ------------------------------------- lines 67-91: one pass of the row loop
\* td[i] of a row with ncols cells
Cell(row, i) ==
  IF i >= row.ncols THEN Missing
  ELSE IF i = 3 THEN row.pages
  ELSE <<"-", "-">>

ExtractRow ==
  /\ pc = "extract"
  /\ rowidx < nrows
  /\ \E row \in Rows :
       LET d == row.docno
           md1 == DictSet(masterdict, d, EmptyEntry)
           md2 == [md1 EXCEPT ![d].doctitle = row.title]
           md3 == [md2 EXCEPT ![d].docmasterurl = masterurlprefix \o row.href]
           md4 == [md3 EXCEPT ![d].docdate = IsoDate(row.date),
                              ![d].docpages = CountCell(Cell(row, 3)),
                              ![d].docphotos = CountCell(Cell(row, 4))]
       IN /\ docno' = d
          /\ keys' = KeysSet(keys, d)
          /\ IF row.ncols < 3
             THEN /\ masterdict' = md1
                  /\ Raise("IndexError: row has too few cells")
                  /\ UNCHANGED rowidx
             ELSE IF row.href = None
             THEN /\ masterdict' = md2
                  /\ Raise("TypeError: row has no link")
                  /\ UNCHANGED rowidx
             ELSE IF ~DateParses(row.date)
             THEN /\ masterdict' = md3
                  /\ Raise("ValueError: date does not match format")
                  /\ UNCHANGED rowidx
             ELSE /\ masterdict' = md4
                  /\ rowidx' = rowidx + 1
                  /\ Continue(IF rowidx + 1 < nrows THEN "extract" ELSE "resolve")
  /\ idx' = 1
  /\ UNCHANGED <<run, disk, csvfile, accidentnumber, nrows, record, attempts, success,
                 listing, disk0, fileGets, resolveGets, statusLog, pathWrites,
                 csvOpened>>

\* ------------------------------ lines 103-140: one pass of the resolution loop
\* lines 108-114: the second <input>'s value, else the second-to-last <option>'s
FirstUrl(page) ==
  IF page.inputvalue \notin {Missing, None} THEN detailurlprefix \o page.inputvalue
  ELSE IF page.optionvalue \notin {Missing, None} THEN detailurlprefix \o page.optionvalue
  ELSE Missing

\* lines 115-118
ViewUrlFix(page, url) ==
  IF url # ViewUrl THEN url
  ELSE IF page.inputvalue = Missing \/ page.onclick = None THEN Missing
  ELSE detailurlprefix \o OnclickSub(page.onclick)

\* lines 119-128
AlternateUrl(page, url) ==
  IF Len(url) <= 2 \/ url = HttpDownloadUrl
  THEN (IF page.optionvalue \notin {Missing, None}
        THEN detailurlprefix \o page.optionvalue ELSE url)
  ELSE url

\* lines 132-139
LocalFilename(entry, url) ==
  <<DocketId, entry.docdate, slugify(entry.doctitle), LastDotPart(url)>>

ResolveRecord ==
  /\ pc = "resolve"
  /\ idx <= Len(keys)
  /\ LET r == keys[idx] IN
     /\ record' = r
     /\ resolveGets' = [resolveGets EXCEPT ![r] = @ + 1]
     /\ \E page \in DetailPages :
          IF page.kind = "transport"
          THEN /\ Raise("ConnectionError: detail page GET")
               /\ UNCHANGED <<masterdict, idx, pathWrites>>
          ELSE IF FirstUrl(page) = Missing
          THEN /\ Raise("IndexError: no download option")
               /\ UNCHANGED <<masterdict, idx, pathWrites>>
          ELSE IF ViewUrlFix(page, FirstUrl(page)) = Missing
          THEN /\ Raise("TypeError: no onclick to read")
               /\ UNCHANGED <<masterdict, idx, pathWrites>>
          ELSE LET url == AlternateUrl(page, ViewUrlFix(page, FirstUrl(page))) IN
               /\ masterdict' = [masterdict EXCEPT
                                   ![r].detailurl = url,
                                   ![r].localfilename = LocalFilename(masterdict[r], url)]
               /\ pathWrites' = [pathWrites EXCEPT ![r] = @ + 1]
               /\ idx' = idx + 1
               /\ Continue(IF idx < Len(keys) THEN "resolve" ELSE "sort")
  /\ UNCHANGED <<run, disk, csvfile, accidentnumber, nrows, rowidx, keys, docno,
                 attempts, success, listing, disk0, fileGets, statusLog, csvOpened>>

\* ------------------------------------------------------------------ line 142
\* line 142 left out: the dict keeps its insertion order
KeysAsInserted(ks) == ks

RECURSIVE SortKeys(_)
\* sorted(masterdict.items(), key=lambda t: t[0]): ascending docno
SortKeys(ks) ==
  IF ks = <<>> THEN <<>>
  ELSE LET m == CHOOSE x \in Range(ks) : \A y \in Range(ks) : x <= y
       IN <<m>> \o SortKeys(SelectSeq(ks, LAMBDA x : x # m))

SortMasterdict ==
  /\ pc = "sort"
  /\ keys' = SortKeys(keys)
  /\ idx' = 1
  /\ Continue(IF keys = <<>> THEN "csv" ELSE "download")
  /\ UNCHANGED <<run, disk, csvfile, accidentnumber, nrows, rowidx, masterdict, docno,
                 record, attempts, success, listing, disk0, fileGets, resolveGets,
                 statusLog, pathWrites, csvOpened>>

\* --------------------------------------------- lines 147-197: the downloads
\* the exists test left out: every record is fetched again
PathExistsNever(d, path) == FALSE

\* os.path.exists(localfilename)
PathExists(d, path) == path \in DOMAIN d

\* open(localfilename, "wb") succeeds when the name is a file name inside the
\* docket directory: an extension holding "/" names a directory or a file in a
\* directory that was never made
CanOpen(path) == "/" \notin Range(path[4])

\* the file opened for appending: what was there stays
OpenAppend(d, path) == IF path \in DOMAIN d THEN d ELSE (path :> <<>>) @@ d

\* open(..., "wb"): the file is created, or emptied when it was there
OpenWb(d, path) == (path :> <<>>) @@ d

\* localfilehandle.write(chunk) for the first k chunks of the payload; chunk i
\* of the payload is written as i
WriteChunks(d, path, k) == [d EXCEPT ![path] = @ \o [i \in 1..k |-> i]]

\* lines 160-163 / 177-180 once the GET has returned a response
DiskAfter(d, path, out) ==
  IF CanOpen(path) THEN WriteChunks(OpenWb(d, path), path, out.k) ELSE d

AttemptWorks(path, out) == CanOpen(path) /\ out.kind = "ok"

\* the record is finished: the for loop of line 147 moves on
NextRecord ==
  /\ idx' = idx + 1
  /\ Continue(IF idx < Len(keys) THEN "download" ELSE "csv")

\* attempts initialised once before the loop over the records, not per record
InitialAttemptsKept(a) == a

\* line 156: attempts = 0, whatever it was left at by an earlier record
InitialAttempts(a) == 0

\* while attempts < 3 and not success
RetryLimit == 3

\* the loop condition without "and not success"
RetryGuardNoSuccess(a, s) == a < RetryLimit

RetryGuard(a, s) == a < RetryLimit /\ ~s

\* lines 147-172: the exists test and the first attempt
DownloadRecord ==
  /\ pc = "download"
  /\ idx <= Len(keys)
  /\ LET r == keys[idx]
         path == masterdict[r].localfilename
     IN
     /\ record' = r
     /\ IF PathExists(disk, path)
        THEN /\ masterdict' = [masterdict EXCEPT ![r].download = "File already existed"]
             /\ statusLog' = [statusLog EXCEPT ![r] = Append(@, "File already existed")]
             /\ NextRecord
             /\ UNCHANGED <<disk, attempts, success, fileGets>>
        ELSE /\ attempts' = InitialAttempts(attempts)
             /\ fileGets' = [fileGets EXCEPT ![r] = @ + 1]
             /\ \E out \in Outcomes :
                  IF out.kind = "transport"
                  THEN /\ Raise("ConnectionError: file GET")
                       /\ success' = FALSE
                       /\ UNCHANGED <<disk, masterdict, statusLog, idx>>
                  ELSE LET ok == AttemptWorks(path, out)
                           st == IF ok THEN "Good" ELSE "Bad"
                       IN /\ disk' = DiskAfter(disk, path, out)
                          /\ masterdict' = [masterdict EXCEPT ![r].download = st]
                          /\ statusLog' = [statusLog EXCEPT ![r] = Append(@, st)]
                          /\ success' = ok
                          /\ IF RetryGuard(attempts', ok)
                             THEN Continue("retry") /\ UNCHANGED idx
                             ELSE NextRecord
  /\ UNCHANGED <<run, csvfile, accidentnumber, nrows, rowidx, keys, docno, listing,
                 disk0, resolveGets, pathWrites, csvOpened>>

\* lines 174-197: one pass of the retry loop
RetryDownload ==
  /\ pc = "retry"
  /\ RetryGuard(attempts, success)
  /\ LET r == keys[idx]
         path == masterdict[r].localfilename
         n == fileGets[r] + 1
     IN
     /\ fileGets' = [fileGets EXCEPT ![r] = n]
     /\ \E out \in Outcomes :
          LET ok == out.kind # "transport" /\ AttemptWorks(path, out)
              st == IF ok THEN "Good" ELSE "Bad"
              a == IF ok THEN attempts ELSE attempts + 1
          IN /\ disk' = (IF out.kind = "transport" THEN disk
                         ELSE DiskAfter(disk, path, out))
             /\ masterdict' = [masterdict EXCEPT ![r].download = st]
             /\ statusLog' = [statusLog EXCEPT ![r] = Append(@, st)]
             /\ success' = ok
             /\ attempts' = a
             /\ IF RetryGuard(a, ok)
                THEN Continue("retry") /\ UNCHANGED idx
                ELSE NextRecord
  /\ UNCHANGED <<run, csvfile, accidentnumber, nrows, rowidx, keys, docno, record,
                 listing, disk0, resolveGets, pathWrites, csvOpened>>

\* ------------------------------------------------- lines 199-215: the CSV
\* one written row: the run columns, the record number and the record's
\* download status (the other, purely copied, columns are left out)
CsvRow(r) == <<accidentnumber, DocketId, r, masterdict[r].download>>

CsvRows(ks) == [i \in 1..Len(ks) |-> CsvRow(ks[i])]

\* open(docketid + ".csv", "w") comes first; masterdict[record] of line 203
\* is a NameError when no loop ever bound record
WriteCsv ==
  /\ pc = "csv"
  /\ csvOpened' = TRUE
  /\ IF record = 0
     THEN /\ csvfile' = [exists |-> TRUE, rows |-> <<>>]
          /\ Raise("NameError: record")
     ELSE /\ csvfile' = [exists |-> TRUE, rows |-> CsvRows(keys)]
          /\ Continue("done")
  /\ UNCHANGED <<run, disk, accidentnumber, nrows, rowidx, masterdict, keys, docno,
                 record, idx, attempts, success, listing, disk0, fileGets,
                 resolveGets, statusLog, pathWrites>>

\* ------------------------------------------------------- the next invocation
\* the script is started again on the same directory: nothing but the files
\* survives; csvfile holds what the current run wrote
StartAgain ==
  /\ pc \in {"done", "crashed"}
  /\ run < MaxRuns
  /\ run' = run + 1
  /\ csvfile' = [exists |-> FALSE, rows |-> <<>>]
  /\ FreshRun(disk)
  /\ UNCHANGED disk

Next ==
  \/ FetchListing
  \/ ExtractRow
  \/ ResolveRecord
  \/ SortMasterdict
  \/ DownloadRecord
  \/ RetryDownload
  \/ WriteCsv
  \/ StartAgain

Spec == Init /\ [][Next]_vars

\* the interpreter runs the script to its end: every enabled step is taken
FairSpec == Spec /\ WF_vars(Next)

\* ================================================================ the claims
Payload == [i \in 1..PayloadChunks |-> i]

Records == DOMAIN masterdict

HasPath(r) == masterdict[r].localfilename # Unset

\* the download loop is done with record r in this run
Finished(r) == statusLog[r] # <<>> /\ ~(pc = "retry" /\ keys[idx] = r)

ExistedAtStart(r) == HasPath(r) /\ masterdict[r].localfilename \in DOMAIN disk0

\* ----------------------------------------------------------------------- C1
\* C1 as stated: for a record whose file is at its local path when the run
\* starts, the run makes no network request at all for it (no detail-page GET,
\* no file GET), leaves the file as it was and gives it the status
\* "File already existed".
C1_NoRequestForExisting ==
  \A r \in Records :
    ExistedAtStart(r) =>
      /\ resolveGets[r] = 0
      /\ fileGets[r] = 0
      /\ disk[masterdict[r].localfilename] = disk0[masterdict[r].localfilename]
      /\ (Finished(r) => masterdict[r].download = "File already existed")

\* C1 amended: for a record whose file is at its local path when the run
\* starts, the run issues exactly one detail-page GET (the path's extension
\* comes from the resolved URL), no file GET, leaves the file as it was, and
\* once the download loop has handled the record its only status is
\* "File already existed".
C1_ExistingFileSkipped ==
  \A r \in Records :
    ExistedAtStart(r) =>
      /\ resolveGets[r] = 1
      /\ fileGets[r] = 0
      /\ disk[masterdict[r].localfilename] = disk0[masterdict[r].localfilename]
      /\ statusLog[r] \in {<<>>, <<"File already existed">>}
      /\ (Finished(r) => masterdict[r].download = "File already existed")

C1_Witness ==
  /\ run > 1
  /\ \E r \in Records :
       /\ ExistedAtStart(r)
       /\ Finished(r)
       /\ masterdict[r].download = "File already existed"

\* ----------------------------------------------------------------------- C2
\* C2: a record's failed download never aborts the run: once a file GET has
\* been issued for a record the run is not ended by an exception, the record
\* ends with a status, and a finished run's CSV has a row for it.
C2_DownloadFailureNeverAborts ==
  \A r \in Records :
    fileGets[r] > 0 =>
      /\ pc # "crashed"
      /\ (Finished(r) => masterdict[r].download \in {"Good", "Bad"})
      /\ (pc = "done" => \E i \in 1..Len(csvfile.rows) : csvfile.rows[i][3] = r)

\* ----------------------------------------------------------------------- C3
\* C3: a download that fails on attempts 1 and 2 and succeeds on attempt 3 ends
\* Good after exactly three attempts, and the file at the local path is the
\* payload of the successful attempt and nothing else.
C3_ThirdAttemptSucceeds ==
  \A r \in Records :
    (Len(statusLog[r]) >= 3 /\ SubSeq(statusLog[r], 1, 3) = <<"Bad", "Bad", "Good">>) =>
      /\ statusLog[r] = <<"Bad", "Bad", "Good">>
      /\ fileGets[r] = 3
      /\ Finished(r)
      /\ masterdict[r].download = "Good"
      /\ PathExists(disk, masterdict[r].localfilename)
      /\ disk[masterdict[r].localfilename] = Payload

C3_Witness ==
  \E r \in Records :
    /\ statusLog[r] = <<"Bad", "Bad", "Good">>
    /\ disk0 = EmptyDisk
    /\ pc = "done"

\* ----------------------------------------------------------------------- C4
\* C4: a record whose resolved file URL is empty is kept, gets the status
\* NoUrl, no file GET is made for it and no file appears at its local path.
C4_EmptyUrlIsNoUrl ==
  \A r \in Records :
    masterdict[r].detailurl = detailurlprefix =>
      /\ fileGets[r] = 0
      /\ masterdict[r].download \in {"unset", "NoUrl"}
      /\ (Finished(r) => masterdict[r].download = "NoUrl")
      /\ ~PathExists(disk, masterdict[r].localfilename)

\* ----------------------------------------------------------------------- C5
\* C5: when the listing fetch fails (exception or a status other than 200) the
\* run leaves nothing behind: no record, no per-record request, no file, no CSV.
C5_FetchFailureNoOutput ==
  listing \in {"transport", "http_error"} =>
    /\ Records = {}
    /\ \A d \in DocNos : resolveGets[d] = 0 /\ fileGets[d] = 0
    /\ disk = disk0
    /\ ~csvOpened
    /\ ~csvfile.exists

\* ----------------------------------------------------------------------- C6
\* C6: a row with an unparseable date or too few cells is skipped: it does not
\* end the run and it leaves no empty or partly filled record behind.
C6_BadRowSkipped ==
  /\ crash \notin {"IndexError: row has too few cells",
                   "ValueError: date does not match format"}
  /\ \A r \in Records :
       /\ masterdict[r].doctitle # Unset
       /\ masterdict[r].docmasterurl # Unset
       /\ masterdict[r].docdate # <<0, 0, 0>>

\* ----------------------------------------------------------------------- C7
\* C7: the written CSV has exactly one data row per extracted record, in
\* ascending record number order, whatever the page order of the rows and
\* whatever the download statuses.
C7_CsvSortedOnePerRecord ==
  csvfile.exists =>
    /\ Len(csvfile.rows) = Cardinality(Records)
    /\ {csvfile.rows[i][3] : i \in 1..Len(csvfile.rows)} = Records
    /\ \A i, j \in 1..Len(csvfile.rows) :
         i < j => csvfile.rows[i][3] < csvfile.rows[j][3]

\* the last row of the page did not carry the greatest record number, so the
\* page was not in ascending order; two rows of the CSV differ in status
C7_Witness ==
  /\ pc = "done"
  /\ Len(csvfile.rows) >= 2
  /\ docno # keys[Len(keys)]
  /\ \E i, j \in 1..Len(csvfile.rows) : csvfile.rows[i][4] # csvfile.rows[j][4]

\* ----------------------------------------------------------------------- C8
\* C8: a record is given "File already existed" only when the file at its
\* local path is a complete download.
C8_AlreadyExistsOnlyIfComplete ==
  \A r \in Records :
    masterdict[r].download = "File already existed" =>
      /\ PathExists(disk, masterdict[r].localfilename)
      /\ disk[masterdict[r].localfilename] = Payload

\* ----------------------------------------------------------------------- C9
\* C9 as stated: within a run a record's local path is written once, and its
\* download status is never set to one value and later set to another.
C9_StatusWriteOnce ==
  \A r \in DocNos :
    /\ pathWrites[r] <= 1
    /\ \A i, j \in 1..Len(statusLog[r]) : statusLog[r][i] = statusLog[r][j]

\* the status writes a record can see in one run: "File already existed"
\* alone, or one write per attempt, "Bad" for each failed one and "Good" for
\* a last, successful one
StatusWritesOk(l) ==
  \/ l = <<"File already existed">>
  \/ /\ Len(l) <= 1 + RetryLimit
     /\ \A i \in 1..(Len(l) - 1) : l[i] = "Bad"
     /\ \A i \in 1..Len(l) : l[i] \in {"Bad", "Good"}

\* C9 amended: within a run a record's local path is written once and so never
\* changes; the status is written once per attempt (at most 1 + 3 times):
\* "Bad" after each failed attempt, which a later successful attempt overwrites
\* with "Good"; "Good" and "File already existed" are never overwritten, and
\* the record's status is the last value written.
C9_PathOnceStatusPerAttempt ==
  \A r \in DocNos :
    /\ pathWrites[r] <= 1
    /\ (r \in Records /\ HasPath(r) => pathWrites[r] = 1)
    /\ StatusWritesOk(statusLog[r])
    /\ (statusLog[r] # <<>> =>
          r \in Records /\ masterdict[r].download = statusLog[r][Len(statusLog[r])])

C9_Witness ==
  \E r \in Records :
    /\ statusLog[r] = <<"Bad", "Good">>
    /\ masterdict[r].download = "Good"
    /\ pathWrites[r] = 1
    /\ pc = "done"

\* ---------------------------------------------------------------------- C10
C10_Bounded ==
  /\ \A r \in DocNos : fileGets[r] <= 1 + RetryLimit
  /\ pc = "retry" =>
       /\ attempts < RetryLimit
       /\ attempts = fileGets[keys[idx]] - 1

C10_InLoop == pc \in {"download", "retry"}

\* C10: every record gets one first attempt and at most 3 more; inside a
\* record's retry loop the counter counts that record's failed retries only
\* (it started at zero for it); and the download loop always comes to an end.
C10_PerRecordBoundedRetries ==
  /\ []C10_Bounded
  /\ (C10_InLoop ~> ~C10_InLoop)

C10_Witness ==
  /\ pc \in {"csv", "done"}
  /\ Len(keys) >= 2
  /\ fileGets[keys[1]] = 1 + RetryLimit
  /\ fileGets[keys[2]] = 1 + RetryLimit

====
